---------------------------- MODULE Spec2Model ----------------------------
(***************************************************************************)
(* A model of main.py: the DomainRewriter (rewrite_css, rewrite_js,        *)
(* rewrite_html, get_file_path) and the request handler serve_content.     *)
(*                                                                         *)
(* Text is a sequence of one-character strings.  The regular expressions   *)
(* of url_patterns and of the safety net are modelled by matchers that     *)
(* follow Python's re semantics for exactly those patterns: leftmost       *)
(* match, greedy optional groups, the lazy ".*?", "." matching anything    *)
(* but a newline, and the netloc interpolated unescaped, so that its "."   *)
(* is a wildcard.  The netlocs of the model hold letters, digits and "."   *)
(* only, the characters for which this reading of the pattern is exact.    *)
(***************************************************************************)
EXTENDS Integers, Sequences, FiniteSets, TLC

VARIABLES
    rewriter,   \* the DomainRewriter instance: original_domain and netloc
    fs,         \* the filesystem: what each absolute path names
    srv,        \* serve_content: the request being handled and its locals
    css,        \* a call of rewrite_css or rewrite_js: its locals
    html        \* a call of rewrite_html: its locals

vars == <<rewriter, fs, srv, css, html>>

(***************************************************************************)
(* Bounds of the model.                                                    *)
(***************************************************************************)
\* fragments per css/js input text
MaxFrags == 4
\* fragments per attribute value of an html input
MaxValFrags == 2
\* names per request path
MaxSegs == 2
\* the lines rewrite_html prints are counted modulo this
PrintWrap == 4
\* how deep a text of an html input nests the domain in itself
MaxNest == 2

(***************************************************************************)
(* str helpers                                                             *)
(***************************************************************************)
UpperCase == <<"A","B","C","D","E","F","G","H","I","J","K","L","M",
               "N","O","P","Q","R","S","T","U","V","W","X","Y","Z">>
LowerCase == <<"a","b","c","d","e","f","g","h","i","j","k","l","m",
               "n","o","p","q","r","s","t","u","v","w","x","y","z">>

\* one character under re.IGNORECASE
Lower(c) ==
    IF \E i \in 1..26 : UpperCase[i] = c
    THEN LowerCase[CHOOSE i \in 1..26 : UpperCase[i] = c]
    ELSE c

\* \s of the re module
Whitespace == {" ", "\n", "\t", "\r", "\f"}

\* s[i:] of Python, i counted from 1
From(s, i) == SubSeq(s, i, Len(s))

\* s[i:].startswith(t), i counted from 1
StartsWithAt(s, i, t) ==
    /\ i + Len(t) - 1 <= Len(s)
    /\ \A k \in 1..Len(t) : s[i + k - 1] = t[k]

\* the same, ignoring case
StartsWithAtCI(s, i, t) ==
    /\ i + Len(t) - 1 <= Len(s)
    /\ \A k \in 1..Len(t) : Lower(s[i + k - 1]) = Lower(t[k])

\* str.startswith
StartsWith(s, t) == StartsWithAt(s, 1, t)

\* str.endswith
EndsWith(s, t) == Len(t) <= Len(s) /\ StartsWithAt(s, Len(s) - Len(t) + 1, t)

\* t in s
Contains(s, t) == { i \in 1..(Len(s) + 1) : StartsWithAt(s, i, t) } # {}

\* the leftmost of the positions in S
Leftmost(S) == CHOOSE j \in S : \A k \in S : j <= k

RECURSIVE ReplaceFrom(_, _, _)
\* the text from i on, copied up to the next occurrence of old (not empty),
\* and the scan resumed after that occurrence
ReplaceFrom(s, i, old) ==
    LET found == { j \in i..Len(s) : StartsWithAt(s, j, old) }
    IN  IF found = {} THEN From(s, i)
        ELSE SubSeq(s, i, Leftmost(found) - 1)
                 \o ReplaceFrom(s, Leftmost(found) + Len(old), old)

\* s.replace(old, ''): every non-overlapping occurrence, left to right
Replace(s, old) == IF old = <<>> THEN s ELSE ReplaceFrom(s, 1, old)

RECURSIVE LStrip(_, _)
\* s.lstrip(c)
LStrip(s, c) == IF s # <<>> /\ Head(s) = c THEN LStrip(Tail(s), c) ELSE s

RECURSIVE Concat(_)
\* ''.join(parts)
Concat(parts) == IF parts = <<>> THEN <<>> ELSE Head(parts) \o Concat(Tail(parts))

HTTP == <<"h","t","t","p",":","/","/">>
HTTPS == <<"h","t","t","p","s",":","/","/">>
SlashSlash == <<"/","/">>
DQ == "\""
SQ == "'"

\* the domain of the examples
ExampleCom == <<"e","x","a","m","p","l","e",".","c","o","m">>

(***************************************************************************)
(* DomainRewriter.__init__                                                 *)
(***************************************************************************)
\* the end of the netloc: the first of "/", "?", "#" (urlparse)
RECURSIVE NetlocEnd(_, _)
NetlocEnd(s, i) ==
    IF i > Len(s) \/ s[i] \in {"/", "?", "#"} THEN i ELSE NetlocEnd(s, i + 1)

\* urlparse(url).netloc, for a url that starts with a scheme and "://"
UrlNetloc(url) ==
    LET start == IF StartsWith(url, HTTPS) THEN Len(HTTPS) + 1 ELSE Len(HTTP) + 1
    IN  SubSeq(url, start, NetlocEnd(url, start) - 1)

NewRewriter(domain) ==
    LET original == IF StartsWith(domain, HTTP) \/ StartsWith(domain, HTTPS)
                    THEN domain ELSE HTTPS \o domain
    IN  [original_domain |-> original, netloc |-> UrlNetloc(original)]

(***************************************************************************)
(* url_patterns                                                            *)
(***************************************************************************)
\* one character of the interpolated netloc against one character of text
NetlocCharMatches(p, c, ignorecase) ==
    IF p = "." THEN c # "\n"
    ELSE IF ignorecase THEN Lower(p) = Lower(c) ELSE p = c

\* the netloc, read as a regular expression, matches s at i
MatchNetloc(netloc, s, i, ignorecase) ==
    /\ i + Len(netloc) - 1 <= Len(s)
    /\ \A k \in 1..Len(netloc) : NetlocCharMatches(netloc[k], s[i + k - 1], ignorecase)

RECURSIVE PathRunEnd(_, _)
\* the end of the greedy run [^"'\s]* from i
PathRunEnd(s, i) ==
    IF i > Len(s) \/ s[i] \in ({DQ, SQ} \cup Whitespace) THEN i
    ELSE PathRunEnd(s, i + 1)

\* the end of the optional group (/[^"'\s]*)? tried at i; i itself when the
\* group does not take part in the match
PathGroupEnd(s, i) ==
    IF i <= Len(s) /\ s[i] = "/" THEN PathRunEnd(s, i + 1) ELSE i

NoMatch == [ok |-> FALSE, g2 |-> 0, end |-> 0]

\* (https?://NETLOC)(/[^"'\s]*)? with re.IGNORECASE, tried at i
MatchFullUrl(netloc, s, i) ==
    LET n == IF StartsWithAtCI(s, i, HTTPS) THEN i + Len(HTTPS)
             ELSE IF StartsWithAtCI(s, i, HTTP) THEN i + Len(HTTP)
             ELSE 0
    IN  IF n # 0 /\ MatchNetloc(netloc, s, n, TRUE)
        THEN [ok |-> TRUE, g2 |-> n + Len(netloc),
              end |-> PathGroupEnd(s, n + Len(netloc))]
        ELSE NoMatch

RECURSIVE LazyNetloc(_, _, _)
\* where .*?NETLOC ends up matching the netloc when tried from j: the first
\* place the netloc matches, with no newline skipped; 0 for none
LazyNetloc(netloc, s, j) ==
    IF j + Len(netloc) - 1 > Len(s) THEN 0
    ELSE IF MatchNetloc(netloc, s, j, TRUE) THEN j
    ELSE IF s[j] = "\n" THEN 0
    ELSE LazyNetloc(netloc, s, j + 1)

\* q//(.*?NETLOC)(/[^"'\s]*)? with re.IGNORECASE, tried at i; q the quote
MatchProtocolRelative(q, netloc, s, i) ==
    IF StartsWithAt(s, i, <<q>> \o SlashSlash)
    THEN LET j == LazyNetloc(netloc, s, i + 3)
         IN  IF j # 0
             THEN [ok |-> TRUE, g2 |-> j + Len(netloc),
                   end |-> PathGroupEnd(s, j + Len(netloc))]
             ELSE NoMatch
    ELSE NoMatch

\* the k-th pattern of url_patterns, tried at i
UrlPatternMatch(k, netloc, s, i) ==
    CASE k = 1 -> MatchFullUrl(netloc, s, i)
      [] k = 2 -> MatchProtocolRelative(DQ, netloc, s, i)
      [] k = 3 -> MatchProtocolRelative(SQ, netloc, s, i)

\* group(2) of a match, <<>> for None (a group that matched is never empty)
Group2(s, m) == SubSeq(s, m.g2, m.end - 1)

_replace_full_url(s, i, m) == Group2(s, m)

_replace_protocol_relative_url(s, i, m) ==
    IF s[i] = DQ THEN <<DQ>> \o Group2(s, m) \o <<DQ>>
    ELSE <<SQ>> \o Group2(s, m) \o <<SQ>>

\* the replacer paired with the k-th pattern
UrlPatternReplace(k, s, i, m) ==
    IF k = 1 THEN _replace_full_url(s, i, m)
    ELSE _replace_protocol_relative_url(s, i, m)

RECURSIVE PatternSubFrom(_, _, _, _)
\* the text from i on, copied up to the next match, the match replaced and
\* the scan resumed at its end
PatternSubFrom(k, netloc, s, i) ==
    LET found == { j \in i..Len(s) : UrlPatternMatch(k, netloc, s, j).ok }
    IN  IF found = {} THEN From(s, i)
        ELSE LET j == Leftmost(found)
                 m == UrlPatternMatch(k, netloc, s, j)
             IN  SubSeq(s, i, j - 1) \o UrlPatternReplace(k, s, j, m)
                     \o PatternSubFrom(k, netloc, s, m.end)

\* pattern.sub(replacer, content) for the k-th entry of url_patterns
PatternSub(k, netloc, s) == PatternSubFrom(k, netloc, s, 1)

NumPatterns == 3

\* fr.read(100)
SniffLen == 100

(***************************************************************************)
(* rewrite_css, rewrite_js                                                 *)
(***************************************************************************)
CssIdle ==
    [pc |-> "idle", fn |-> "none", caller |-> "none", input |-> <<>>,
     content |-> <<>>, idx |-> 0, calls |-> 0, first |-> <<>>]

\* a call rewrite_css(content) or rewrite_js(content) is entered
CssCall(fn, caller, content, calls, first) ==
    [pc |-> "loop", fn |-> fn, caller |-> caller, input |-> content,
     content |-> content, idx |-> 1, calls |-> calls, first |-> first]

\* one turn of "for pattern, replacer in self.url_patterns"
PatternLoopTurn ==
    css' = [css EXCEPT !.content = PatternSub(css.idx, rewriter.netloc, css.content),
                       !.idx = css.idx + 1]

rewrite_css_iter ==
    /\ css.pc = "loop" /\ css.fn = "css" /\ css.idx <= NumPatterns
    /\ PatternLoopTurn
    /\ UNCHANGED <<rewriter, fs, srv, html>>

rewrite_css_return ==
    /\ css.pc = "loop" /\ css.fn = "css" /\ css.idx > NumPatterns
    /\ css' = [css EXCEPT !.pc = "returned"]
    /\ UNCHANGED <<rewriter, fs, srv, html>>

rewrite_js_iter ==
    /\ css.pc = "loop" /\ css.fn = "js" /\ css.idx <= NumPatterns
    /\ PatternLoopTurn
    /\ UNCHANGED <<rewriter, fs, srv, html>>

rewrite_js_return ==
    /\ css.pc = "loop" /\ css.fn = "js" /\ css.idx > NumPatterns
    /\ css' = [css EXCEPT !.pc = "returned"]
    /\ UNCHANGED <<rewriter, fs, srv, html>>

\* the whole of rewrite_css / rewrite_js as a function of the content
RewriteText(netloc, content) ==
    PatternSub(3, netloc, PatternSub(2, netloc, PatternSub(1, netloc, content)))

(***************************************************************************)
(* The parse tree of BeautifulSoup(content, 'html.parser'): a sequence of  *)
(* nodes in document order.  A node is a tag (name, attributes in source   *)
(* order, children), a text node or the doctype.  The attribute values and *)
(* texts of the model hold none of & < > " so that str(soup) writes them   *)
(* as they are.                                                            *)
(***************************************************************************)
TagA == <<"a">>
TagScript == <<"s","c","r","i","p","t">>
TagImg == <<"i","m","g">>
TagLink == <<"l","i","n","k">>
TagMeta == <<"m","e","t","a">>
TagForm == <<"f","o","r","m">>
TagBase == <<"b","a","s","e">>
TagHead == <<"h","e","a","d">>
TagDiv == <<"d","i","v">>
AttrHref == <<"h","r","e","f">>
AttrSrc == <<"s","r","c">>
AttrAction == <<"a","c","t","i","o","n">>
AttrContent == <<"c","o","n","t","e","n","t">>
AttrHttpEquiv == <<"h","t","t","p","-","e","q","u","i","v">>
AttrStyle == <<"s","t","y","l","e">>
AttrDataUrl == <<"d","a","t","a","-","u","r","l">>
DataPrefix == <<"d","a","t","a","-">>
Refresh == <<"r","e","f","r","e","s","h">>
Doctype == <<"<","!","D","O","C","T","Y","P","E"," ","h","t","m","l",">">>

Tag(name, attrs, kids) ==
    [kind |-> "tag", name |-> name, attrs |-> attrs, kids |-> kids, text |-> <<>>]
TextNode(text) ==
    [kind |-> "text", name |-> <<>>, attrs |-> <<>>, kids |-> <<>>, text |-> text]
DoctypeNode ==
    [kind |-> "doctype", name |-> <<>>, attrs |-> <<>>, kids |-> <<>>, text |-> <<>>]

\* key in tag.attrs
HasAttr(n, key) == \E i \in 1..Len(n.attrs) : n.attrs[i].k = key

\* tag[key]
AttrOf(n, key) == n.attrs[CHOOSE i \in 1..Len(n.attrs) : n.attrs[i].k = key].v

\* the tag after tag[key] = F(tag[key]) for every key that Sel selects
MapAttrs(n, Sel(_), F(_)) ==
    [n EXCEPT !.attrs = [i \in 1..Len(n.attrs) |->
        IF Sel(n.attrs[i].k) THEN [k |-> n.attrs[i].k, v |-> F(n.attrs[i].v)]
        ELSE n.attrs[i]]]

\* the tree after Change is applied to every node find_all would visit: the
\* nodes of the top level and their children
MapNodes(soup, Change(_)) ==
    [i \in 1..Len(soup) |->
        [Change(soup[i]) EXCEPT !.kids =
            [j \in 1..Len(soup[i].kids) |-> Change(soup[i].kids[j])]]]

\* every node of the tree, in no order
AllNodes(soup) ==
    { soup[i] : i \in 1..Len(soup) }
    \cup UNION { { soup[i].kids[j] : j \in 1..Len(soup[i].kids) } : i \in 1..Len(soup) }

\* s.lower()
LowerStr(s) == [i \in 1..Len(s) |-> Lower(s[i])]

ProtocolRelative == SlashSlash \o rewriter.netloc

\* lines 50-53 without the elif: the protocol-relative form is left alone
StripLeadingFullOnly(v) ==
    IF StartsWith(v, rewriter.original_domain) THEN Replace(v, rewriter.original_domain)
    ELSE v

\* lines 50-53 (and 58-61, 66-69, 74-77, 106-109): the value of an attribute
\* that starts with the domain
StripLeading(v) ==
    IF StartsWith(v, rewriter.original_domain) THEN Replace(v, rewriter.original_domain)
    ELSE IF StartsWith(v, ProtocolRelative) THEN Replace(v, ProtocolRelative)
    ELSE v

\* lines 83-86 and 92-95: the value of an attribute that holds the domain
StripContained(v) ==
    IF Contains(v, rewriter.original_domain) THEN Replace(v, rewriter.original_domain)
    ELSE IF Contains(v, ProtocolRelative) THEN Replace(v, ProtocolRelative)
    ELSE v

\* lines 100-101: the value of a data- attribute
StripData(v) ==
    IF Contains(v, rewriter.original_domain) \/ Contains(v, ProtocolRelative)
    THEN Replace(Replace(v, rewriter.original_domain), ProtocolRelative)
    ELSE v

\* for t in soup.find_all(name, key=True): t[key] = StripLeading(t[key])
StripTagAttr(soup, name, key) ==
    LET Sel(k) == k = key
        Change(n) == IF n.kind = "tag" /\ n.name = name /\ HasAttr(n, key)
                     THEN MapAttrs(n, Sel, StripLeading) ELSE n
    IN  MapNodes(soup, Change)

\* lines 80-86
StripMetaRefresh(soup) ==
    LET Sel(k) == k = AttrContent
        Change(n) == IF /\ n.kind = "tag" /\ n.name = TagMeta /\ HasAttr(n, AttrContent)
                        /\ HasAttr(n, AttrHttpEquiv)
                        /\ LowerStr(AttrOf(n, AttrHttpEquiv)) = Refresh
                     THEN MapAttrs(n, Sel, StripContained) ELSE n
    IN  MapNodes(soup, Change)

\* lines 90-95
StripStyles(soup) ==
    LET Sel(k) == k = AttrStyle
        Change(n) == IF n.kind = "tag" /\ HasAttr(n, AttrStyle)
                     THEN MapAttrs(n, Sel, StripContained) ELSE n
    IN  MapNodes(soup, Change)

\* lines 98-101
StripDataAttrs(soup) ==
    LET Sel(k) == StartsWith(k, DataPrefix)
        Change(n) == IF n.kind = "tag" THEN MapAttrs(n, Sel, StripData) ELSE n
    IN  MapNodes(soup, Change)

IsTag(n, name) == n.kind = "tag" /\ n.name = name

\* soup.find(name) is not None
Found(soup, name) == \E n \in AllNodes(soup) : IsTag(n, name)

\* the place of soup.find('head') among the nodes of the top level, where
\* the trees of the model have it; 0 for None
HeadIndex(soup) ==
    IF \E i \in 1..Len(soup) : IsTag(soup[i], TagHead)
    THEN CHOOSE i \in 1..Len(soup) :
            /\ IsTag(soup[i], TagHead)
            /\ \A j \in 1..(i - 1) : ~IsTag(soup[j], TagHead)
    ELSE 0

BaseTag(href) == Tag(TagBase, <<[k |-> AttrHref, v |-> href]>>, <<>>)

\* lines 112-116
InsertBase(soup, request_base_url) ==
    LET h == HeadIndex(soup)
    IN  IF h # 0 /\ ~Found(soup, TagBase)
        THEN [soup EXCEPT ![h].kids = <<BaseTag(request_base_url)>> \o soup[h].kids]
        ELSE soup

\* the tags html.parser knows to have no content, written <name .../>
VoidTags == {TagBase, TagImg, TagLink, TagMeta}

SerializeAttrs(attrs) ==
    Concat([i \in 1..Len(attrs) |->
        <<" ">> \o attrs[i].k \o <<"=", DQ>> \o attrs[i].v \o <<DQ>>])

\* str(node) for a node without children of its own children
SerializeLeaf(n) ==
    CASE n.kind = "text" -> n.text
      [] n.kind = "doctype" -> Doctype
      [] OTHER ->
            IF n.name \in VoidTags
            THEN <<"<">> \o n.name \o SerializeAttrs(n.attrs) \o <<"/", ">">>
            ELSE <<"<">> \o n.name \o SerializeAttrs(n.attrs) \o <<">">>
                 \o <<"<", "/">> \o n.name \o <<">">>

SerializeNode(n) ==
    IF n.kind = "tag" /\ n.name \notin VoidTags
    THEN <<"<">> \o n.name \o SerializeAttrs(n.attrs) \o <<">">>
         \o Concat([j \in 1..Len(n.kids) |-> SerializeLeaf(n.kids[j])])
         \o <<"<", "/">> \o n.name \o <<">">>
    ELSE SerializeLeaf(n)

\* str(soup)
Serialize(soup) == Concat([i \in 1..Len(soup) |-> SerializeNode(soup[i])])

\* (https?://)?NETLOC tried at i, without re.IGNORECASE: the end of the match,
\* i itself for an empty match, 0 for none
MatchSafetyNet(netloc, s, i) ==
    LET n == IF StartsWithAt(s, i, HTTPS) THEN i + Len(HTTPS)
             ELSE IF StartsWithAt(s, i, HTTP) THEN i + Len(HTTP)
             ELSE 0
    IN  IF n # 0 /\ MatchNetloc(netloc, s, n, FALSE) THEN n + Len(netloc)
        ELSE IF MatchNetloc(netloc, s, i, FALSE) THEN i + Len(netloc)
        ELSE 0

RECURSIVE SafetyNetSubFrom(_, _, _)
\* the text from i on, copied up to the next match that is not empty, and the
\* scan resumed at the end of that match; an empty match is replaced by the
\* empty string, which changes nothing
SafetyNetSubFrom(netloc, s, i) ==
    LET found == { j \in i..Len(s) : MatchSafetyNet(netloc, s, j) > j }
    IN  IF found = {} THEN From(s, i)
        ELSE SubSeq(s, i, Leftmost(found) - 1)
                 \o SafetyNetSubFrom(netloc, s, MatchSafetyNet(netloc, s, Leftmost(found)))

\* re.sub(f"(https?://)?{netloc}", "", content)
SafetyNetSub(netloc, s) == SafetyNetSubFrom(netloc, s, 1)

(***************************************************************************)
(* rewrite_html, a statement group at a time                               *)
(***************************************************************************)
HtmlIdle ==
    [pc |-> "idle", caller |-> "none", input |-> <<>>, base_url |-> <<>>,
     soup |-> <<>>, content |-> <<>>, printed |-> 0]

\* rewrite_html(content, request_base_url) is entered; soup is the parse
HtmlCall(caller, soup, request_base_url) ==
    [pc |-> "anchors", caller |-> caller, input |-> soup,
     base_url |-> request_base_url, soup |-> soup, content |-> <<>>, printed |-> 0]

HtmlStep(at, soup2, next) ==
    /\ html.pc = at
    /\ html' = [html EXCEPT !.soup = soup2, !.pc = next]
    /\ UNCHANGED <<rewriter, fs, srv, css>>

rewrite_html_anchors == HtmlStep("anchors", StripTagAttr(html.soup, TagA, AttrHref), "scripts")
rewrite_html_scripts == HtmlStep("scripts", StripTagAttr(html.soup, TagScript, AttrSrc), "images")
rewrite_html_images == HtmlStep("images", StripTagAttr(html.soup, TagImg, AttrSrc), "links")
rewrite_html_links == HtmlStep("links", StripTagAttr(html.soup, TagLink, AttrHref), "meta")
rewrite_html_meta == HtmlStep("meta", StripMetaRefresh(html.soup), "styles")
rewrite_html_styles == HtmlStep("styles", StripStyles(html.soup), "data")
rewrite_html_data == HtmlStep("data", StripDataAttrs(html.soup), "forms")
rewrite_html_forms == HtmlStep("forms", StripTagAttr(html.soup, TagForm, AttrAction), "base")
rewrite_html_base == HtmlStep("base", InsertBase(html.soup, html.base_url), "serialize")

\* content = str(soup)
rewrite_html_serialize ==
    /\ html.pc = "serialize"
    /\ html' = [html EXCEPT !.content = Serialize(html.soup), !.pc = "loop"]
    /\ UNCHANGED <<rewriter, fs, srv, css>>

\* one turn of "while netloc in content": a line is printed and the matches
\* are removed.  The lines printed are counted modulo PrintWrap: the count
\* has no bound of its own.
rewrite_html_loop ==
    /\ html.pc = "loop"
    /\ Contains(html.content, rewriter.netloc)
    /\ html' = [html EXCEPT !.content = SafetyNetSub(rewriter.netloc, html.content),
                            !.printed = (html.printed + 1) % PrintWrap]
    /\ UNCHANGED <<rewriter, fs, srv, css>>

\* the loop is left and content returned
rewrite_html_return ==
    /\ html.pc = "loop"
    /\ ~Contains(html.content, rewriter.netloc)
    /\ html' = [html EXCEPT !.pc = "returned"]
    /\ UNCHANGED <<rewriter, fs, srv, css>>

RewriteHtmlStep ==
    \/ rewrite_html_anchors
    \/ rewrite_html_scripts
    \/ rewrite_html_images
    \/ rewrite_html_links
    \/ rewrite_html_meta
    \/ rewrite_html_styles
    \/ rewrite_html_data
    \/ rewrite_html_forms
    \/ rewrite_html_base
    \/ rewrite_html_serialize
    \/ rewrite_html_loop
    \/ rewrite_html_return

(***************************************************************************)
(* The filesystem.  A path is a sequence of names from "/"; fs maps the    *)
(* paths it knows to a directory, a regular file with its data, or nothing.*)
(***************************************************************************)
NoData == [decodable |-> TRUE, markup |-> FALSE, text |-> <<>>, doc |-> <<>>]
Absent == [kind |-> "none", data |-> NoData]
Dir == [kind |-> "dir", data |-> NoData]
File(data) == [kind |-> "file", data |-> data]

KindAt(files, p) == IF p \in DOMAIN files THEN files[p].kind ELSE "none"

RECURSIVE Split(_, _)
\* s.split(sep)
Split(s, sep) ==
    IF \E i \in 1..Len(s) : s[i] = sep
    THEN LET i == CHOOSE i \in 1..Len(s) : s[i] = sep /\ \A j \in 1..(i - 1) : s[j] # sep
         IN  <<SubSeq(s, 1, i - 1)>> \o Split(From(s, i + 1), sep)
    ELSE <<s>>

\* the parts pathlib keeps of a relative path: no empty name and no "."
PathParts(rel) == SelectSeq(Split(rel, "/"), LAMBDA n : n # <<>> /\ n # <<".">>)

DotDot == <<".", ".">>

RECURSIVE Walk(_, _, _)
\* the path the operating system reaches from cur along parts: every name
\* is looked up in a directory, and ".." is that directory's parent
Walk(files, cur, parts) ==
    IF parts = <<>> THEN [ok |-> TRUE, at |-> cur]
    ELSE IF KindAt(files, cur) # "dir" THEN [ok |-> FALSE, at |-> cur]
    ELSE IF Head(parts) = DotDot
         THEN Walk(files, IF cur = <<>> THEN cur ELSE SubSeq(cur, 1, Len(cur) - 1),
                   Tail(parts))
         ELSE Walk(files, Append(cur, Head(parts)), Tail(parts))

\* what the absolute path with these parts names: "file", "dir" or "none"
KindOf(files, parts) ==
    LET w == Walk(files, <<>>, parts)
    IN  IF w.ok THEN KindAt(files, w.at) ELSE "none"

\* the path without its "..": where the file is
RealPath(files, parts) == Walk(files, <<>>, parts).at

\* Path.exists(), Path.is_file()
Exists(files, parts) == KindOf(files, parts) # "none"
IsFile(files, parts) == KindOf(files, parts) = "file"

(***************************************************************************)
(* get_file_path                                                           *)
(***************************************************************************)
\* Path(content_root).resolve()
ContentRoot == <<<<"w","w","w">>>>

KnownExtensions ==
    { <<".","h","t","m","l">>, <<".","h","t","m">>, <<".","c","s","s">>, <<".","j","s">>, <<".","j","p","g">>, <<".","j","p","e","g">>, <<".","p","n","g">>, <<".","g","i","f">>,
      <<".","s","v","g">>, <<".","w","e","b","p">>, <<".","i","c","o">>, <<".","p","d","f">>, <<".","t","x","t">> }

IndexHtml == <<"i","n","d","e","x",".","h","t","m","l">>

NotFound == [found |-> FALSE, parts |-> <<>>]
FoundAt(parts) == [found |-> TRUE, parts |-> parts]

\* self.content_root / path.lstrip('/')
UnderRoot(path) == ContentRoot \o PathParts(LStrip(path, "/"))

\* lines 143-146: the path looked up when the request path names no file
IndexPath(path) ==
    IF path = <<"/">> THEN <<"/">> \o IndexHtml
    ELSE IF ~\E e \in KnownExtensions : EndsWith(path, e)
         THEN IF ~EndsWith(path, <<"/">>) THEN path \o <<"/">> \o IndexHtml
              ELSE path \o IndexHtml
         ELSE path

\* line 141 without its is_file(): a directory passes too
RawPathExists(files, raw_path) == Exists(files, raw_path)

\* line 141: raw_path.exists() and raw_path.is_file()
RawPathIsFile(files, raw_path) == Exists(files, raw_path) /\ IsFile(files, raw_path)

\* line 149: file_path.exists()
FilePathExists(files, file_path) == Exists(files, file_path)

get_file_path(files, path) ==
    LET raw_path == UnderRoot(path)
        file_path == UnderRoot(IndexPath(path))
    IN  IF RawPathIsFile(files, raw_path) THEN FoundAt(raw_path)
        ELSE IF FilePathExists(files, file_path) THEN FoundAt(file_path)
        ELSE NotFound

(***************************************************************************)
(* serve_content                                                           *)
(***************************************************************************)
\* Path(p).suffix, p a string or the parts of a path
NameSuffix(name) ==
    LET dots == { i \in 1..Len(name) : name[i] = "." }
    IN  IF dots = {} THEN <<>>
        ELSE LET i == CHOOSE i \in dots : \A j \in dots : j <= i
             IN  IF 1 < i /\ i < Len(name) THEN From(name, i) ELSE <<>>

PartsSuffix(parts) == IF parts = <<>> THEN <<>> ELSE NameSuffix(parts[Len(parts)])

PathSuffix(path) == PartsSuffix(PathParts(path))

\* the text of a file that decodes
FileText(data) == IF data.markup THEN Serialize(data.doc) ELSE data.text

RECURSIVE LStripSpace(_)
\* s.lstrip()
LStripSpace(s) ==
    IF s # <<>> /\ Head(s) \in Whitespace THEN LStripSpace(Tail(s)) ELSE s

\* fr.read(100).lstrip().startswith('<!DOCTYPE html>')
SniffsAsHtml(data) ==
    StartsWith(LStripSpace(SubSeq(FileText(data), 1, IF Len(FileText(data)) < SniffLen
                                                     THEN Len(FileText(data))
                                                     ELSE SniffLen)),
               Doctype)

\* BeautifulSoup(content, 'html.parser') of a file's text
Parse(data) ==
    IF data.markup THEN data.doc
    ELSE IF data.text = <<>> THEN <<>> ELSE <<TextNode(data.text)>>

SrvIdle ==
    [pc |-> "idle", full_path |-> <<>>, path |-> <<>>, suffix |-> <<>>,
     base_url |-> <<>>,
     file_path |-> NotFound, opened |-> {}, called |-> {},
     response |-> [status |-> 0, kind |-> "none", body |-> <<>>]]

Reply(status, kind, body) == [status |-> status, kind |-> kind, body |-> body]

\* an exception leaves the handler: the framework answers 500
ServerError == Reply(500, "error", <<>>)

DataOf(files, parts) == files[RealPath(files, parts)].data

\* lines 159-162
serve_content_enter(full_path, query, base) ==
    /\ srv.pc = "idle"
    /\ srv' = [SrvIdle EXCEPT
                !.pc = "resolve",
                !.full_path = full_path,
                !.path = IF query # <<>> THEN <<"/">> \o full_path \o <<"?">> \o query
                         ELSE <<"/">> \o full_path,
                !.suffix = PathSuffix(<<"/">> \o full_path),
                !.base_url = base]
    /\ UNCHANGED <<rewriter, fs, css, html>>

\* lines 164-166
serve_content_resolve ==
    /\ srv.pc = "resolve"
    /\ LET file_path == get_file_path(fs, srv.path)
       IN  IF ~file_path.found
           THEN srv' = [srv EXCEPT !.pc = "done", !.file_path = file_path,
                                   !.response = Reply(404, "not_found", srv.path)]
           ELSE srv' = [srv EXCEPT !.pc = "suffix", !.file_path = file_path]
    /\ UNCHANGED <<rewriter, fs, css, html>>

\* lines 168-176
serve_content_suffix ==
    /\ srv.pc = "suffix"
    /\ LET parts == srv.file_path.parts
           new_suffix == PartsSuffix(parts)
           suffix == IF new_suffix # <<>> /\ srv.suffix = <<>> THEN new_suffix
                     ELSE srv.suffix
       IN  IF suffix = <<>> /\ IsFile(fs, parts)
           THEN IF ~DataOf(fs, parts).decodable
                THEN srv' = [srv EXCEPT !.pc = "done", !.suffix = suffix,
                                        !.opened = @ \cup {RealPath(fs, parts)},
                                        !.response = ServerError]
                ELSE srv' = [srv EXCEPT !.pc = "dispatch",
                                        !.opened = @ \cup {RealPath(fs, parts)},
                                        !.suffix = IF SniffsAsHtml(DataOf(fs, parts))
                                                   THEN <<".","h","t","m","l">> ELSE suffix]
           ELSE srv' = [srv EXCEPT !.pc = "dispatch", !.suffix = suffix]
    /\ UNCHANGED <<rewriter, fs, css, html>>

\* open(file_path, 'r', encoding='utf-8', errors='ignore') and f.read():
\* the handler's next state when the open fails, for a directory
OpenFails == [srv EXCEPT !.pc = "done", !.response = ServerError,
                         !.opened = @ \cup {RealPath(fs, srv.file_path.parts)}]

\* lines 179-189
serve_content_html ==
    /\ srv.pc = "dispatch"
    /\ srv.suffix \in {<<".","h","t","m","l">>, <<".","h","t","m">>}
    /\ IF IsFile(fs, srv.file_path.parts)
       THEN /\ srv' = [srv EXCEPT !.pc = "in_html",
                                  !.opened = @ \cup {RealPath(fs, srv.file_path.parts)},
                                  !.called = @ \cup {"rewrite_html"}]
            /\ html' = HtmlCall("server", Parse(DataOf(fs, srv.file_path.parts)),
                                IF EndsWith(srv.base_url, <<"/">>) THEN srv.base_url
                                ELSE srv.base_url \o <<"/">>)
       ELSE srv' = OpenFails /\ html' = html
    /\ UNCHANGED <<rewriter, fs, css>>

\* line 190
serve_content_html_return ==
    /\ srv.pc = "in_html"
    /\ html.pc = "returned"
    /\ srv' = [srv EXCEPT !.pc = "done", !.response = Reply(200, "text/html", html.content)]
    /\ html' = HtmlIdle
    /\ UNCHANGED <<rewriter, fs, css>>

\* lines 192-197
serve_content_css ==
    /\ srv.pc = "dispatch"
    /\ srv.suffix = <<".","c","s","s">>
    /\ IF IsFile(fs, srv.file_path.parts)
       THEN /\ srv' = [srv EXCEPT !.pc = "in_css",
                                  !.opened = @ \cup {RealPath(fs, srv.file_path.parts)},
                                  !.called = @ \cup {"rewrite_css"}]
            /\ css' = CssCall("css", "server", FileText(DataOf(fs, srv.file_path.parts)),
                              1, <<>>)
       ELSE srv' = OpenFails /\ css' = css
    /\ UNCHANGED <<rewriter, fs, html>>

\* line 198
serve_content_css_return ==
    /\ srv.pc = "in_css"
    /\ css.pc = "returned"
    /\ srv' = [srv EXCEPT !.pc = "done", !.response = Reply(200, "text/css", css.content)]
    /\ css' = CssIdle
    /\ UNCHANGED <<rewriter, fs, html>>

\* lines 200-205
serve_content_js ==
    /\ srv.pc = "dispatch"
    /\ srv.suffix = <<".","j","s">>
    /\ IF IsFile(fs, srv.file_path.parts)
       THEN /\ srv' = [srv EXCEPT !.pc = "in_js",
                                  !.opened = @ \cup {RealPath(fs, srv.file_path.parts)},
                                  !.called = @ \cup {"rewrite_js"}]
            /\ css' = CssCall("js", "server", FileText(DataOf(fs, srv.file_path.parts)),
                              1, <<>>)
       ELSE srv' = OpenFails /\ css' = css
    /\ UNCHANGED <<rewriter, fs, html>>

\* line 206
serve_content_js_return ==
    /\ srv.pc = "in_js"
    /\ css.pc = "returned"
    /\ srv' = [srv EXCEPT !.pc = "done",
                          !.response = Reply(200, "application/javascript", css.content)]
    /\ css' = CssIdle
    /\ UNCHANGED <<rewriter, fs, html>>

\* line 209: FileResponse(file_path) sends the file as it is, and fails for
\* what is not a regular file
serve_content_file ==
    /\ srv.pc = "dispatch"
    /\ srv.suffix \notin {<<".","h","t","m","l">>, <<".","h","t","m">>, <<".","c","s","s">>, <<".","j","s">>}
    /\ IF IsFile(fs, srv.file_path.parts)
       THEN srv' = [srv EXCEPT !.pc = "done",
                               !.opened = @ \cup {RealPath(fs, srv.file_path.parts)},
                               !.response = Reply(200, "file", DataOf(fs, srv.file_path.parts))]
       ELSE srv' = OpenFails
    /\ UNCHANGED <<rewriter, fs, css, html>>

\* the response is sent; the handler is free for the next request
serve_content_done ==
    /\ srv.pc = "done"
    /\ srv' = SrvIdle
    /\ UNCHANGED <<rewriter, fs, css, html>>

(***************************************************************************)
(* The server: a content root /www in one of the layouts below, a file     *)
(* /secret.txt outside it, and requests whose path has at most MaxSegs     *)
(* names.                                                                  *)
(***************************************************************************)
Www == <<"w","w","w">>
Blog == <<"b","l","o","g">>
StyleCss == <<"s","t","y","l","e",".","c","s","s">>
AppJs == <<"a","p","p",".","j","s">>
SecretTxt == <<"s","e","c","r","e","t",".","t","x","t">>

\* a page: the doctype, a <head>, a link to the original domain and a text
\* that names it
PageData ==
    [decodable |-> TRUE, markup |-> TRUE, text |-> <<>>,
     doc |-> << DoctypeNode, Tag(TagHead, <<>>, <<>>),
                Tag(TagA, <<[k |-> AttrHref, v |-> HTTPS \o ExampleCom \o <<"/","f","o","o">>]>>, <<>>),
                TextNode(ExampleCom) >>]

\* url("//example.com/img.png")
SheetData ==
    [decodable |-> TRUE, markup |-> FALSE, doc |-> <<>>,
     text |-> <<"u","r","l","(","\"","/","/","e","x","a","m","p","l","e",".","c","o","m","/","i","m","g",".","p","n","g","\"",")">>]

\* bytes that are no text in the encoding open() decodes with
BinaryData == [decodable |-> FALSE, markup |-> FALSE, text |-> <<>>, doc |-> <<>>]

PlainData == [decodable |-> TRUE, markup |-> FALSE, text |-> <<"x">>, doc |-> <<>>]

Layout(index, blog, blogIndex, style, app) ==
    ( <<>> :> Dir ) @@ ( <<Www>> :> Dir ) @@ ( <<SecretTxt>> :> File(PlainData) )
    @@ ( <<Www, IndexHtml>> :> index )
    @@ ( <<Www, Blog>> :> blog )
    @@ ( <<Www, Blog, IndexHtml>> :> blogIndex )
    @@ ( <<Www, StyleCss>> :> style )
    @@ ( <<Www, AppJs>> :> app )

Layouts ==
    { Layout(i, b, bi, st, js) :
        i \in {Absent, Dir, File(PageData)},
        b \in {Absent, Dir, File(BinaryData), File(PageData), File(PlainData)},
        bi \in {Absent, File(PageData)},
        st \in {Absent, Dir, File(SheetData)},
        js \in {Absent, File(SheetData)} }

\* a layout is a tree: what lies in blog needs blog to be a directory
WellFormed(files) ==
    files[<<Www, Blog, IndexHtml>>].kind # "none" => files[<<Www, Blog>>].kind = "dir"

SegNames == { <<>>, Blog, IndexHtml, StyleCss, AppJs, SecretTxt, <<"m","i","s","s","i","n","g">>, DotDot }

RECURSIVE JoinSlash(_)
\* '/'.join(names)
JoinSlash(names) ==
    IF names = <<>> THEN <<>>
    ELSE IF Len(names) = 1 THEN names[1]
    ELSE names[1] \o <<"/">> \o JoinSlash(Tail(names))

\* the full_path of a request: names joined by "/", with or without a "/" after
FullPaths ==
    { JoinSlash(n) \o e : n \in UNION { [1..k -> SegNames] : k \in 0..MaxSegs },
                         e \in {<<>>, <<"/">>} }

Queries == { <<>>, <<"v">> }

ServerBaseUrls == { <<"h","t","t","p",":","/","/","h","/">> }

ServerDomains == { ExampleCom }

Init ==
    /\ \E d \in ServerDomains : rewriter = NewRewriter(d)
    /\ fs \in { f \in Layouts : WellFormed(f) }
    /\ srv = SrvIdle
    /\ css = CssIdle
    /\ html = HtmlIdle

Next ==
    \/ \E p \in FullPaths, q \in Queries, b \in ServerBaseUrls : serve_content_enter(p, q, b)
    \/ serve_content_resolve
    \/ serve_content_suffix
    \/ serve_content_html
    \/ serve_content_html_return
    \/ serve_content_css
    \/ serve_content_css_return
    \/ serve_content_js
    \/ serve_content_js_return
    \/ serve_content_file
    \/ serve_content_done
    \/ RewriteHtmlStep
    \/ rewrite_css_iter
    \/ rewrite_css_return
    \/ rewrite_js_iter
    \/ rewrite_js_return

Spec == Init /\ [][Next]_vars

(***************************************************************************)
(* The rewriters applied to texts: the inputs are the concatenations of    *)
(* at most MaxFrags fragments, and the result of a call is rewritten once  *)
(* more.                                                                   *)
(***************************************************************************)
CssFragments ==
    { HTTPS, <<DQ>> \o SlashSlash, <<SQ>> \o SlashSlash, <<DQ>>, <<SQ>>, ExampleCom,
      <<"e","x","a","m","p","l","e","X","c","o","m">>,
      <<"/","i","m","g",".","p","n","g">>,
      <<"o",".","o","r","g">>,
      <<"h","t","t","p","s",":","/","/","e","x","a">>,
      <<"m","p","l","e",".","c","o","m">> }

CssInputs ==
    { Concat(f) : f \in UNION { [1..n -> CssFragments] : n \in 0..MaxFrags } }

RewriteDomains == { ExampleCom }

NoFiles == <<>>

InitRewrite ==
    /\ \E d \in RewriteDomains : rewriter = NewRewriter(d)
    /\ \E fn \in {"css", "js"}, c \in CssInputs :
           css = CssCall(fn, "direct", c, 1, <<>>)
    /\ fs = NoFiles
    /\ srv = SrvIdle
    /\ html = HtmlIdle

\* the text a call returned is passed to the same function again
RewriteAgain ==
    /\ css.pc = "returned" /\ css.caller = "direct" /\ css.calls = 1
    /\ css' = CssCall(css.fn, "direct", css.content, 2, css.content)
    /\ UNCHANGED <<rewriter, fs, srv, html>>

NextRewrite ==
    \/ rewrite_css_iter
    \/ rewrite_css_return
    \/ rewrite_js_iter
    \/ rewrite_js_return
    \/ RewriteAgain

SpecRewrite == InitRewrite /\ [][NextRewrite]_vars

(***************************************************************************)
(* rewrite_html applied to documents: an optional <head> (empty, or with a *)
(* <base>) followed by one node, whose attribute value is a concatenation  *)
(* of at most MaxValFrags fragments or whose text nests the domain in      *)
(* itself up to MaxNest deep.                                              *)
(***************************************************************************)
ValFragments ==
    { HTTPS \o ExampleCom, SlashSlash \o ExampleCom, ExampleCom, <<"/","f","o","o">> }

HtmlValues ==
    { Concat(f) : f \in UNION { [1..n -> ValFragments] : n \in 0..MaxValFrags } }

RECURSIVE Nested(_)
\* the domain with itself inside, d deep: removing the inner one leaves d - 1
Nested(d) ==
    IF d = 0 THEN <<"x">>
    ELSE IF d = 1 THEN ExampleCom
    ELSE <<"e","x","a">> \o Nested(d - 1) \o <<"m","p","l","e",".","c","o","m">>

One(key, v) == <<[k |-> key, v |-> v]>>

BodyNodes ==
    { Tag(TagA, One(AttrHref, v), <<>>) : v \in HtmlValues }
    \cup { Tag(TagScript, One(AttrSrc, v), <<>>) : v \in HtmlValues }
    \cup { Tag(TagImg, One(AttrSrc, v), <<>>) : v \in HtmlValues }
    \cup { Tag(TagLink, One(AttrHref, v), <<>>) : v \in HtmlValues }
    \cup { Tag(TagForm, One(AttrAction, v), <<>>) : v \in HtmlValues }
    \cup { Tag(TagMeta, One(AttrHttpEquiv, Refresh) \o One(AttrContent, v), <<>>) :
             v \in HtmlValues }
    \cup { Tag(TagDiv, One(AttrStyle, v), <<>>) : v \in HtmlValues }
    \cup { Tag(TagDiv, One(AttrDataUrl, v), <<>>) : v \in HtmlValues }
    \cup { Tag(TagBase, One(AttrHref, v), <<>>) : v \in HtmlValues }
    \cup { TextNode(Nested(d)) : d \in 0..MaxNest }

Heads ==
    { <<>>,
      <<Tag(TagHead, <<>>, <<>>)>>,
      <<Tag(TagHead, <<>>, <<BaseTag(<<"/">>)>>)>> }

HtmlInputs == { h \o <<n>> : h \in Heads, n \in BodyNodes }

\* str(request.base_url): the origin that serves the mirror
BaseUrls == { <<"h","t","t","p",":","/","/","h","/">>, <<"h","t","t","p",":","/","/","m",".","e","x","a","m","p","l","e",".","c","o","m","/">> }

\* the domains the rewriter is constructed with
HtmlDomains == { ExampleCom, <<>> }

InitHtml ==
    /\ \E d \in HtmlDomains : rewriter = NewRewriter(d)
    /\ \E doc \in HtmlInputs, b \in BaseUrls : html = HtmlCall("direct", doc, b)
    /\ fs = NoFiles
    /\ srv = SrvIdle
    /\ css = CssIdle

SpecHtml == InitHtml /\ [][RewriteHtmlStep]_vars

(***************************************************************************)
(* The claims                                                              *)
(***************************************************************************)
\* get_file_path has returned for the request at hand
Resolved == srv.pc \notin {"idle", "resolve"}

\* the content root of the example: index.html and blog/index.html only
ExampleLayout == Layout(File(PageData), Dir, File(PageData), Absent, Absent)

\* the four-step rule, as the claim words it
FourStepRule(files, p, r) ==
    LET direct == ContentRoot \o PathParts(LStrip(p, "/"))
        q == IF p = <<"/">> THEN <<"/","i","n","d","e","x",".","h","t","m","l">>
             ELSE IF \E e \in KnownExtensions : EndsWith(p, e) THEN p
             ELSE IF p[Len(p)] = "/" THEN p \o <<"i","n","d","e","x",".","h","t","m","l">>
             ELSE p \o <<"/","i","n","d","e","x",".","h","t","m","l">>
        again == ContentRoot \o PathParts(LStrip(q, "/"))
    IN  IF KindOf(files, direct) = "file" THEN r = FoundAt(direct)
        ELSE IF KindOf(files, again) # "none" THEN r = FoundAt(again)
        ELSE r = NotFound

\* C1: whatever the content root holds and whatever the request path,
\* get_file_path returns what the four-step rule says; with a root holding
\* only index.html and blog/index.html, "/" gives index.html, "/blog" and
\* "/blog/" give blog/index.html and "/missing" gives not-found.
C1_FourStepRule ==
    Resolved =>
        /\ FourStepRule(fs, srv.path, srv.file_path)
        /\ fs = ExampleLayout =>
            /\ srv.path = <<"/">> => srv.file_path = FoundAt(<<Www, IndexHtml>>)
            /\ srv.path = <<"/","b","l","o","g">> => srv.file_path = FoundAt(<<Www, Blog, IndexHtml>>)
            /\ srv.path = <<"/","b","l","o","g","/">> => srv.file_path = FoundAt(<<Www, Blog, IndexHtml>>)
            /\ srv.path = <<"/","m","i","s","s","i","n","g">> => srv.file_path = NotFound

\* C1, witness: in the example root, "/blog" has resolved to blog/index.html
C1_Witness ==
    /\ Resolved
    /\ fs = ExampleLayout
    /\ srv.path = <<"/","b","l","o","g">>
    /\ srv.file_path = FoundAt(<<Www, Blog, IndexHtml>>)

IsPrefix(a, b) == Len(a) <= Len(b) /\ SubSeq(b, 1, Len(a)) = a

\* C2: every file the handler opens or sends lies inside (or at) the content
\* root, whatever the request path.
C2_ServedInsideRoot ==
    \A n \in srv.opened : IsPrefix(ContentRoot, n)

\* the dispatch type as the claim words it: the suffix of the request path,
\* else that of the resolved file, else .html for a leading doctype
DispatchType ==
    LET a == PathSuffix(<<"/">> \o srv.full_path)
        b == PartsSuffix(srv.file_path.parts)
    IN  IF a # <<>> THEN a
        ELSE IF b # <<>> THEN b
        ELSE IF SniffsAsHtml(DataOf(fs, srv.file_path.parts)) THEN <<".","h","t","m","l">>
        ELSE <<>>

\* C9: a request whose resolved file is a non-text asset (its dispatch type
\* is none of .html, .htm, .css, .js) is answered with the file's bytes as
\* they are, and no rewriter is called.
C9_NonTextUnmodified ==
    ( /\ srv.pc = "done"
      /\ srv.file_path.found
      /\ IsFile(fs, srv.file_path.parts)
      /\ DispatchType \notin {<<".","h","t","m","l">>, <<".","h","t","m">>, <<".","c","s","s">>, <<".","j","s">>} )
    => /\ srv.response = Reply(200, "file", DataOf(fs, srv.file_path.parts))
       /\ srv.called = {}

\* C10: a result of get_file_path other than not-found is an existing
\* regular file, never a directory.
C10_ResultIsRegularFile ==
    (Resolved /\ srv.file_path.found) => IsFile(fs, srv.file_path.parts)

\* the first return of a direct call of rewrite_css or rewrite_js
FirstReturn == css.pc = "returned" /\ css.caller = "direct" /\ css.calls = 1

QuotedReference(q, path) ==
    <<q>> \o SlashSlash \o rewriter.netloc \o path \o <<q>>

\* C4: a quoted protocol-relative reference to the domain is replaced by
\* the same reference without the host, with one opening and one closing
\* quote: "//example.com/img.png" gives "/img.png" and '//example.com'
\* gives ''.
C4_QuotesKept ==
    FirstReturn =>
        \A q \in {DQ, SQ}, path \in {<<>>, <<"/","i","m","g",".","p","n","g">>} :
            css.input = QuotedReference(q, path) =>
                css.content = <<q>> \o path \o <<q>>

\* C6: rewriting what a call returned changes nothing more.
C6_Idempotent ==
    (css.pc = "returned" /\ css.caller = "direct" /\ css.calls = 2)
    => css.content = css.first

OtherHostReference == <<DQ>> \o SlashSlash \o <<"o",".","o","r","g">> \o <<DQ>>

\* C8: nothing is rewritten for other domains: a text in which the
\* configured netloc does not occur is returned as it is, and a reference
\* to another host is still there after the call.
C8_OtherDomainsUntouched ==
    FirstReturn =>
        /\ ~Contains(LowerStr(css.input), rewriter.netloc) => css.content = css.input
        /\ Contains(css.input, OtherHostReference)
              => Contains(css.content, OtherHostReference)

\* the attributes the claim names: <a href>, <script src>, <img src>,
\* <link href>, <form action>
TargetAttrs ==
    { <<TagA, AttrHref>>, <<TagScript, AttrSrc>>, <<TagImg, AttrSrc>>,
      <<TagLink, AttrHref>>, <<TagForm, AttrAction>> }

\* the places of the input where a target attribute starts with the domain
Prefixed ==
    { <<i, ta>> \in (1..Len(html.input)) \X TargetAttrs :
        /\ IsTag(html.input[i], ta[1])
        /\ HasAttr(html.input[i], ta[2])
        /\ \/ StartsWith(AttrOf(html.input[i], ta[2]), rewriter.original_domain)
           \/ StartsWith(AttrOf(html.input[i], ta[2]), ProtocolRelative) }

\* the value without the prefix it starts with
Remainder(v) ==
    IF StartsWith(v, rewriter.original_domain)
    THEN From(v, Len(rewriter.original_domain) + 1)
    ELSE From(v, Len(ProtocolRelative) + 1)

\* key="value" as the output writes it
AttrText(key, v) == <<" ">> \o key \o <<"=", DQ>> \o v \o <<DQ>>

\* the attribute at place pt has, in the tree and in the text returned, the
\* value the input had without its prefix
PrefixRemovedAt(pt) ==
    LET i == pt[1]
        key == pt[2][2]
        r == Remainder(AttrOf(html.input[i], key))
    IN  /\ AttrOf(html.soup[i], key) = r
        /\ Contains(html.content, <<"<">> \o pt[2][1] \o AttrText(key, r))

\* nothing in v matches the netloc as the safety net reads it
NoNetlocIn(v) == \A i \in 1..(Len(v) + 1) : ~MatchNetloc(rewriter.netloc, v, i, FALSE)

\* C3, as claimed: a target attribute that starts with the domain has, in
\* the output, its value without that prefix and the remainder as it was.
C3_PrefixRemoved ==
    html.pc = "returned" => \A pt \in Prefixed : PrefixRemovedAt(pt)

\* C3, amended: the same, for a remainder in which nothing matches the
\* netloc again.
C3_PrefixRemovedIfNoFurtherMatch ==
    html.pc = "returned" =>
        \A pt \in Prefixed :
            NoNetlocIn(Remainder(AttrOf(html.input[pt[1]], pt[2][2])))
                => PrefixRemovedAt(pt)

\* C3, witness: href="//example.com/foo" of the input is href="/foo" in the
\* text returned
C3_Witness ==
    /\ html.pc = "returned"
    /\ \E pt \in Prefixed :
          /\ AttrOf(html.input[pt[1]], pt[2][2]) = SlashSlash \o ExampleCom \o <<"/","f","o","o">>
          /\ Remainder(AttrOf(html.input[pt[1]], pt[2][2])) = <<"/","f","o","o">>
          /\ PrefixRemovedAt(pt)

\* the input has a <head> and no <base> in it
HeadWithoutBase ==
    /\ HeadIndex(html.input) # 0
    /\ \A j \in 1..Len(html.input[HeadIndex(html.input)].kids) :
          ~IsTag(html.input[HeadIndex(html.input)].kids[j], TagBase)

\* C5: for a document with a <head> that holds no <base>, the text returned
\* has a <base> as the first child of <head>, its href the request's base
\* URL exactly.
C5_BaseInserted ==
    (html.pc = "returned" /\ HeadWithoutBase)
    => Contains(html.content, <<"<","h","e","a","d",">">> \o SerializeLeaf(BaseTag(html.base_url)))

\* C7: the safety-net loop terminates, whatever the configuration and the
\* content: every turn of the loop that is followed by another turn has
\* changed the content.  The loop's test and its body read nothing but the
\* content and the netloc, so a turn that leaves the content as it was is
\* repeated for ever and the call never returns.
C7_LoopTerminates ==
    [][(html.pc = "loop" /\ html'.pc = "loop") => html'.content # html.content]_vars

=============================================================================
